---- MODULE Spec2Model ----
(***************************************************************************)
(* Model of src/main.py: the two-pass Hansard pipeline.                    *)
(*                                                                         *)
(*   step 1  extract the text of pages 1..20, ask the LLM for the ToC      *)
(*   step 2  extract every page, then for each ToC entry concatenate the   *)
(*           text of its page span and ask the LLM for a proceeding        *)
(*   step 3  extract page 1 (result unused), write hansard_summary.json    *)
(*                                                                         *)
(* A Python string is a sequence of one-character strings.  A value that   *)
(* may be None is the record [none, val].  The environment decides whether *)
(* the PDF can be read at each call and what each LLM call returns.        *)
(***************************************************************************)
EXTENDS Integers, Sequences, FiniteSets, TLC

\* ---- bounds of the model ------------------------------------------------
MaxPages == 2          \* pages of the PDF: 0..MaxPages
MaxToc == 3            \* entries of the ToC the LLM returns: 0..MaxToc
MaxPageStart == 2      \* page_start of a ToC entry: 0..MaxPageStart

\* ---- program constants --------------------------------------------------
TocEndPage == 20       \* end_page=20 of the step 1 extraction

\* ---- values -------------------------------------------------------------
Whitespace == {" ", "\n"}

\* the text a page can carry: empty, whitespace only, or real text
PageTextValues == {<<>>, <<" ">>, <<"x">>}

PdfFiles == UNION {[1..n -> PageTextValues] : n \in 0..MaxPages}

None == [none |-> TRUE, val |-> <<>>]

Some(v) == [none |-> FALSE, val |-> v]

PageStarts == 0..MaxPageStart

TocItems == [page_start : PageStarts]

TocLists == UNION {[1..n -> TocItems] : n \in 0..MaxToc}

\* what get_llm_response can return for the ToC: None, or a parsed list
TocResponses == {None} \cup {Some(t) : t \in TocLists}

\* ---- Python truthiness --------------------------------------------------
\* variant: tests `is None` only, so "" and [] pass
IsNoneOnly(o) == o.none

\* variant: tests emptiness only, so None passes
EmptyOnly(o) == ~o.none /\ o.val = <<>>

\* `not x`: None, "", [] and {} are all falsy
Falsy(o) == o.none \/ o.val = <<>>

\* ---- str.strip() --------------------------------------------------------
RECURSIVE LStrip(_)
LStrip(s) ==
  IF s = <<>> THEN s
  ELSE IF Head(s) \in Whitespace THEN LStrip(Tail(s)) ELSE s

RECURSIVE RStrip(_)
RStrip(s) ==
  IF s = <<>> THEN s
  ELSE IF s[Len(s)] \in Whitespace THEN RStrip(SubSeq(s, 1, Len(s) - 1)) ELSE s

Strip(s) == RStrip(LStrip(s))

\* variant: `not chunk_text`, without the strip
IsEmptyNoStrip(chunk_text) == chunk_text = <<>>

\* `not chunk_text.strip()`
IsBlank(chunk_text) == Strip(chunk_text) = <<>>

\* ---- extract_text_from_pdf_pages ---------------------------------------
RECURSIVE JoinPages(_, _, _)
\* for page_num in range(start, end): if page_num < num_pages: text += page_text + "\n"
JoinPages(pages, page_num, end) ==
  IF page_num >= end THEN <<>>
  ELSE (IF page_num < Len(pages) THEN pages[page_num + 1] \o <<"\n">> ELSE <<>>)
       \o JoinPages(pages, page_num + 1, end)

\* file is None when open()/PdfReader raises; an absent argument is 0 (both
\* None and 0 take the else branch of `if start_page` / `if end_page`)
extract_text_from_pdf_pages(file, start_page, end_page) ==
  IF file.none THEN [text |-> None, page_texts |-> None]
  ELSE LET pages == file.val
           num_pages == Len(pages)
           start == IF start_page # 0 THEN start_page - 1 ELSE 0
           end == IF end_page # 0 THEN end_page ELSE num_pages
           nums == {n \in start..(end - 1) : n < num_pages}
       IN [text |-> Some(JoinPages(pages, start, end)),
           page_texts |-> Some([p \in {n + 1 : n \in nums} |-> pages[p]])]

\* ---- the segment loop's arithmetic -------------------------------------
\* all_page_texts.get(page_num, "")
Get(page_texts, page_num) ==
  IF page_num \in DOMAIN page_texts THEN page_texts[page_num] ELSE <<>>

\* variant: the next entry's page_start without the - 1
EndPageNoMinusOne(toc, i, page_texts) ==
  IF i + 1 < Len(toc) THEN toc[i + 2].page_start
  ELSE Cardinality(DOMAIN page_texts)

\* variant: every entry runs to the end of the document
EndPageToDocEnd(toc, i, page_texts) == Cardinality(DOMAIN page_texts)

\* variant: the last entry stops one page short
EndPageLastShort(toc, i, page_texts) ==
  IF i + 1 < Len(toc) THEN toc[i + 2].page_start - 1
  ELSE Cardinality(DOMAIN page_texts) - 1

\* parsed_toc[i + 1]['page_start'] - 1 if i + 1 < len(parsed_toc) else len(all_page_texts)
\* (i is 0-based; TLA+ sequences are 1-based, so entry i is toc[i + 1])
EndPage(toc, i, page_texts) ==
  IF i + 1 < Len(toc) THEN toc[i + 2].page_start - 1
  ELSE Cardinality(DOMAIN page_texts)

RECURSIVE ChunkPages(_, _)
\* the page numbers `for page_num in range(start_page, end_page + 1)` visits
ChunkPages(page_num, end_page) ==
  IF page_num >= end_page + 1 THEN {}
  ELSE {page_num} \cup ChunkPages(page_num + 1, end_page)

RECURSIVE ChunkText(_, _, _)
\* chunk_text += all_page_texts.get(page_num, "") over the same range
ChunkText(page_texts, page_num, end_page) ==
  IF page_num >= end_page + 1 THEN <<>>
  ELSE Get(page_texts, page_num) \o ChunkText(page_texts, page_num + 1, end_page)

\* variant: the 0-based index
SequenceIdZeroBased(i) == i

\* parsed_proceeding['sequence_id'] = i + 1
SequenceId(i) == i + 1

\* variant: insert at the front
Prepend(proceedings, p) == <<p>> \o proceedings

\* all_proceedings.append(parsed_proceeding)
AppendProceeding(proceedings, p) == Append(proceedings, p)

\* ---- state ---------------------------------------------------------------
VARIABLES
  pc,               \* position in the script
  pdf,              \* the pages of documents/Senate_2025_09_04.pdf
  toc_text,         \* step 1: text of pages 1..20, or None
  parsed_toc,       \* step 1: the LLM's ToC, or None
  all_page_texts,   \* step 2: page number -> text, or None
  i,                \* 0-based index of the next ToC entry
  all_proceedings,  \* the proceedings parsed so far
  metadata_text,    \* step 3: text of page 1, or None (never read)
  output_file,      \* contents of hansard_summary.json, None until written
  writes,           \* how many times the output file was written
  extract_calls,    \* log of extract_text_from_pdf_pages calls
  llm_calls,        \* log of get_llm_response calls
  segments          \* log of the loop's iterations

vars == <<pc, pdf, toc_text, parsed_toc, all_page_texts, i, all_proceedings,
          metadata_text, output_file, writes, extract_calls, llm_calls, segments>>

Init ==
  /\ pc = "extract_toc"
  /\ pdf \in PdfFiles
  /\ toc_text = None
  /\ parsed_toc = None
  /\ all_page_texts = None
  /\ i = 0
  /\ all_proceedings = <<>>
  /\ metadata_text = None
  /\ output_file = None
  /\ writes = 0
  /\ extract_calls = <<>>
  /\ llm_calls = <<>>
  /\ segments = <<>>

\* what open(pdf_path) yields: the file, or an exception
Reads == {None, Some(pdf)}

\* ---- step 1 --------------------------------------------------------------
ExtractTocText ==
  /\ pc = "extract_toc"
  /\ \E file \in Reads :
       LET r == extract_text_from_pdf_pages(file, 1, TocEndPage) IN
         /\ toc_text' = r.text
         /\ extract_calls' = Append(extract_calls,
               [start_page |-> 1, end_page |-> TocEndPage, ok |-> ~file.none])
         /\ pc' = IF Falsy(r.text) THEN "exit" ELSE "parse_toc"
  /\ UNCHANGED <<pdf, parsed_toc, all_page_texts, i, all_proceedings,
                 metadata_text, output_file, writes, llm_calls, segments>>

ParseToc ==
  /\ pc = "parse_toc"
  /\ \E resp \in TocResponses :
       /\ parsed_toc' = resp
       /\ pc' = IF Falsy(resp) THEN "exit" ELSE "extract_all"
  /\ llm_calls' = Append(llm_calls, [schema_name |-> "toc_parser", entry |-> -1])
  /\ UNCHANGED <<pdf, toc_text, all_page_texts, i, all_proceedings,
                 metadata_text, output_file, writes, extract_calls, segments>>

\* ---- step 2 --------------------------------------------------------------
ExtractAll ==
  /\ pc = "extract_all"
  /\ \E file \in Reads :
       LET r == extract_text_from_pdf_pages(file, 0, 0) IN
         /\ all_page_texts' = r.page_texts
         /\ extract_calls' = Append(extract_calls,
               [start_page |-> 0, end_page |-> 0, ok |-> ~file.none])
         /\ pc' = IF Falsy(r.page_texts) THEN "exit" ELSE "loop"
  /\ all_proceedings' = <<>>
  /\ i' = 0
  /\ UNCHANGED <<pdf, toc_text, parsed_toc, metadata_text, output_file,
                 writes, llm_calls, segments>>

InLoop == pc = "loop" /\ i < Len(parsed_toc.val)

start_page == parsed_toc.val[i + 1].page_start

end_page == EndPage(parsed_toc.val, i, all_page_texts.val)

chunk_text == ChunkText(all_page_texts.val, start_page, end_page)

Segment(outcome) ==
  [entry |-> i, start_page |-> start_page, end_page |-> end_page,
   pages |-> ChunkPages(start_page, end_page), chunk_text |-> chunk_text,
   outcome |-> outcome]

\* what get_llm_response can return for a segment: None, or a proceeding object
ProceedingResponses == {None, Some([entry |-> i])}

ProceedingCall == [schema_name |-> "proceeding_parser", entry |-> i]

\* `if not chunk_text.strip(): continue`
SegmentSkipped ==
  /\ InLoop
  /\ IsBlank(chunk_text)
  /\ segments' = Append(segments, Segment("skipped"))
  /\ i' = i + 1
  /\ UNCHANGED <<pc, pdf, toc_text, parsed_toc, all_page_texts, all_proceedings,
                 metadata_text, output_file, writes, extract_calls, llm_calls>>

\* variant: the id is the count of proceedings so far plus one
SegmentParsedDense ==
  /\ InLoop
  /\ ~IsBlank(chunk_text)
  /\ llm_calls' = Append(llm_calls, ProceedingCall)
  /\ all_proceedings' = AppendProceeding(all_proceedings,
        [entry |-> i, sequence_id |-> Len(all_proceedings) + 1])
  /\ segments' = Append(segments, Segment("parsed"))
  /\ i' = i + 1
  /\ UNCHANGED <<pc, pdf, toc_text, parsed_toc, all_page_texts,
                 metadata_text, output_file, writes, extract_calls>>

\* the LLM returned a proceeding: it is stamped and appended.  The proceeding's
\* content is represented by `entry`, the ToC entry whose text it was parsed from.
SegmentParsed ==
  /\ InLoop
  /\ ~IsBlank(chunk_text)
  /\ llm_calls' = Append(llm_calls, ProceedingCall)
  /\ \E parsed_proceeding \in ProceedingResponses :
       /\ ~Falsy(parsed_proceeding)
       /\ all_proceedings' = AppendProceeding(all_proceedings,
             [entry |-> i, sequence_id |-> SequenceId(i)])
  /\ segments' = Append(segments, Segment("parsed"))
  /\ i' = i + 1
  /\ UNCHANGED <<pc, pdf, toc_text, parsed_toc, all_page_texts,
                 metadata_text, output_file, writes, extract_calls>>

\* variant: a failed segment call ends the run
SegmentFailedFatal ==
  /\ InLoop
  /\ ~IsBlank(chunk_text)
  /\ llm_calls' = Append(llm_calls, ProceedingCall)
  /\ segments' = Append(segments, Segment("failed"))
  /\ pc' = "exit"
  /\ UNCHANGED <<pdf, toc_text, parsed_toc, all_page_texts, i, all_proceedings,
                 metadata_text, output_file, writes, extract_calls>>

\* the LLM call raised (get_llm_response returned None): print and go on
SegmentFailed ==
  /\ InLoop
  /\ ~IsBlank(chunk_text)
  /\ llm_calls' = Append(llm_calls, ProceedingCall)
  /\ \E parsed_proceeding \in ProceedingResponses : Falsy(parsed_proceeding)
  /\ segments' = Append(segments, Segment("failed"))
  /\ i' = i + 1
  /\ UNCHANGED <<pc, pdf, toc_text, parsed_toc, all_page_texts, all_proceedings,
                 metadata_text, output_file, writes, extract_calls>>

\* ---- step 3 --------------------------------------------------------------
final_metadata ==
  [chamber |-> "SENATE", date |-> "2025-09-04",
   parliament_session |-> "FORTY-EIGHTH PARLIAMENT, FIRST SESSION"]

\* the loop is over: extract page 1 (the result is not looked at), build
\* final_json and dump it to hansard_summary.json
Assemble ==
  /\ pc = "loop"
  /\ i >= Len(parsed_toc.val)
  /\ \E file \in Reads :
       /\ metadata_text' = extract_text_from_pdf_pages(file, 1, 1).text
       /\ extract_calls' = Append(extract_calls,
             [start_page |-> 1, end_page |-> 1, ok |-> ~file.none])
  /\ output_file' = Some([document_metadata |-> final_metadata,
                          proceedings |-> all_proceedings])
  /\ writes' = writes + 1
  /\ pc' = "done"
  /\ UNCHANGED <<pdf, toc_text, parsed_toc, all_page_texts, i, all_proceedings,
                 llm_calls, segments>>

Next ==
  \/ ExtractTocText
  \/ ParseToc
  \/ ExtractAll
  \/ SegmentSkipped
  \/ SegmentParsed
  \/ SegmentFailed
  \/ Assemble

Spec == Init /\ [][Next]_vars

\* the script is sequential and every call returns: a step that can be taken is taken
FairSpec == Spec /\ WF_vars(Next)

\* ---- vocabulary of the properties ---------------------------------------
TocLen == Len(parsed_toc.val)

\* page_start of ToC entry j (0-based)
PageStart(j) == parsed_toc.val[j + 1].page_start

\* the number of pages the full-document extraction returned
LastPage == Cardinality(DOMAIN all_page_texts.val)

AllWhitespace(t) == \A j \in 1..Len(t) : t[j] \in Whitespace

SegIdx == 1..Len(segments)

ProcIdx == 1..Len(all_proceedings)

\* the proceedings in the written file
Written == output_file.val.proceedings

\* the ToC entries whose LLM call returned a proceeding
ParsedEntries == {segments[k].entry : k \in {m \in SegIdx : segments[m].outcome = "parsed"}}

EntriesOf(procs) == {procs[k].entry : k \in 1..Len(procs)}

\* C1: the pages concatenated for entry i are page_start(i)..page_start(i+1)-1
\* when i has a successor and page_start(i)..last_page when it is the last
\* entry, last_page being the number of pages of the full extraction.
C1_PageSpan ==
  \A k \in SegIdx :
    LET s == segments[k] IN
      /\ LastPage = Len(pdf)
      /\ s.pages = IF s.entry < TocLen - 1
                   THEN PageStart(s.entry)..(PageStart(s.entry + 1) - 1)
                   ELSE PageStart(s.entry)..LastPage

C1_Witness ==
  /\ pc = "done"
  /\ Len(segments) = 2
  /\ segments[1].pages = {1}
  /\ segments[2].pages = {2}

\* C2: the span of an entry that has a successor never contains the
\* successor's page_start and shares no page with the successor's span.
C2_NoOverlap ==
  \A k \in SegIdx :
    LET s == segments[k] IN
      s.entry < TocLen - 1 =>
        /\ PageStart(s.entry + 1) \notin s.pages
        /\ \A m \in SegIdx :
             segments[m].entry = s.entry + 1 => s.pages \cap segments[m].pages = {}

C2_Witness ==
  /\ Len(segments) = 3
  /\ segments[1].pages = {0}
  /\ segments[2].pages = {1}
  /\ segments[3].pages = {2}

\* C3: every proceeding in the list carries the 1-based position of its ToC
\* entry as sequence_id, so the ids increase strictly along the list (and may
\* leave gaps).
C3_SequenceIdIsPosition ==
  /\ \A k \in ProcIdx : all_proceedings[k].sequence_id = all_proceedings[k].entry + 1
  /\ \A a, b \in ProcIdx :
       a < b => all_proceedings[a].sequence_id < all_proceedings[b].sequence_id

C3_Witness ==
  /\ pc = "done"
  /\ Len(all_proceedings) = 2
  /\ all_proceedings[1].sequence_id = 1
  /\ all_proceedings[2].sequence_id = 3

\* C4 as stated: at the end of a run the ids in the output are 1..k in order.
C4_Original ==
  pc = "done" => \A k \in 1..Len(Written) : Written[k].sequence_id = k

\* C4 amended: at the end of a run the k-th proceeding of the output carries
\* k plus the number of earlier ToC entries that produced no proceeding; the
\* ids are 1..k only when no skipped or failed entry precedes a parsed one.
C4_Amended ==
  pc = "done" =>
    \A k \in 1..Len(Written) :
      Written[k].sequence_id =
        k + Cardinality({e \in 0..(Written[k].entry - 1) : e \notin EntriesOf(Written)})

C4_Witness ==
  /\ pc = "done"
  /\ Len(Written) = 2
  /\ Written[1].sequence_id = 2
  /\ Written[2].sequence_id = 3

\* C5: an entry whose concatenated text is empty or whitespace-only gets no
\* LLM call and no proceeding, and the loop goes on to the next entry.
C5_BlankSkipped ==
  \A k \in SegIdx :
    LET s == segments[k] IN
      AllWhitespace(s.chunk_text) =>
        /\ \A c \in 1..Len(llm_calls) : llm_calls[c].entry # s.entry
        /\ s.entry \notin EntriesOf(all_proceedings)
        /\ ~output_file.none => s.entry \notin EntriesOf(Written)
        /\ pc \in {"loop", "done"}
        /\ i > s.entry

C5_Witness ==
  /\ Len(segments) = 3
  /\ segments[1].chunk_text = <<" ">>
  /\ segments[2].pages = {}
  /\ segments[3].outcome = "parsed"

\* C6: when the ToC call returns None or an empty list the run ends there:
\* no output file, no full-document extraction, no segment, no further LLM call.
C6_TocFailureFatal ==
  (llm_calls # <<>> /\ (parsed_toc.none \/ parsed_toc.val = <<>>)) =>
    /\ pc = "exit"
    /\ writes = 0
    /\ output_file.none
    /\ segments = <<>>
    /\ Len(extract_calls) = 1
    /\ Len(llm_calls) = 1

C6_Witness ==
  /\ llm_calls # <<>>
  /\ ~parsed_toc.none
  /\ parsed_toc.val = <<>>
  /\ pc = "exit"

\* C7 as stated: whichever extraction call fails, the run aborts, no LLM call
\* is ever issued and no output file is written.
C7_Original ==
  \A k \in 1..Len(extract_calls) :
    ~extract_calls[k].ok => (pc = "exit" /\ llm_calls = <<>> /\ writes = 0)

\* C7 amended: a failed ToC-pages extraction aborts the run before any LLM
\* call and without output; a failed full-document extraction aborts the run
\* without output and without any per-segment LLM call, the ToC call having
\* been issued; a failed metadata-page extraction is ignored and the output
\* file is written.
C7_Amended ==
  /\ (Len(extract_calls) >= 1 /\ ~extract_calls[1].ok) =>
       (pc = "exit" /\ llm_calls = <<>> /\ writes = 0 /\ Len(extract_calls) = 1)
  /\ (Len(extract_calls) >= 2 /\ ~extract_calls[2].ok) =>
       /\ pc = "exit"
       /\ writes = 0
       /\ Len(llm_calls) = 1
       /\ llm_calls[1].schema_name = "toc_parser"
       /\ segments = <<>>
       /\ Len(extract_calls) = 2
  /\ (Len(extract_calls) >= 3 /\ ~extract_calls[3].ok) =>
       (pc = "done" /\ writes = 1 /\ ~output_file.none)

C7_Witness ==
  /\ Len(extract_calls) = 3
  /\ ~extract_calls[3].ok
  /\ Len(llm_calls) >= 2

\* C8: once the segment loop is entered the run always reaches the end with
\* every ToC entry visited and the file written once, after the last entry,
\* holding exactly the parsed segments, whatever the per-segment outcomes.
C8_SegmentFailureNonFatal ==
  /\ (pc = "loop") ~>
       (/\ pc = "done"
        /\ writes = 1
        /\ Len(segments) = TocLen
        /\ \A k \in SegIdx : segments[k].entry = k - 1
        /\ Len(Written) = Cardinality(ParsedEntries)
        /\ EntriesOf(Written) = ParsedEntries)
  /\ [](writes <= 1)
  /\ [](writes = 1 => (pc = "done" /\ i = TocLen /\ Len(segments) = TocLen))

C8_Witness ==
  /\ pc = "done"
  /\ writes = 1
  /\ Len(segments) = 3
  /\ segments[1].outcome = "failed"
  /\ segments[2].outcome = "skipped"
  /\ segments[3].outcome = "parsed"

\* C9: at assembly the proceedings are at most as many as the ToC entries,
\* exactly as many when no entry was blank and no segment call failed, and
\* they appear in ToC order with the skipped entries removed.
C9_LengthAndOrder ==
  pc = "done" =>
    /\ Len(Written) <= TocLen
    /\ (\A k \in SegIdx : /\ ~AllWhitespace(segments[k].chunk_text)
                          /\ segments[k].outcome # "failed")
         => Len(Written) = TocLen
    /\ \A a, b \in 1..Len(Written) : a < b => Written[a].entry < Written[b].entry
    /\ EntriesOf(Written) = ParsedEntries
    /\ Written = all_proceedings

C9_Witness ==
  /\ pc = "done"
  /\ TocLen = 2
  /\ Len(Written) = 2
  /\ \A k \in SegIdx : segments[k].outcome = "parsed"

StrictlyIncreasingToc ==
  \A a, b \in 0..(TocLen - 1) : a < b => PageStart(a) < PageStart(b)

TocWithinDocument == \A a \in 0..(TocLen - 1) : PageStart(a) \in 1..LastPage

SpansHolding(p) == {k \in SegIdx : p \in segments[k].pages}

\* C10: when the page_starts increase strictly and lie within 1..last_page,
\* the spans partition page_start(0)..last_page and no span holds an
\* earlier page.
C10_Partition ==
  (pc = "done" /\ TocLen >= 1 /\ StrictlyIncreasingToc /\ TocWithinDocument) =>
    /\ \A p \in 1..LastPage :
         Cardinality(SpansHolding(p)) = IF p >= PageStart(0) THEN 1 ELSE 0
    /\ UNION {segments[k].pages : k \in SegIdx} = PageStart(0)..LastPage

C10_Witness ==
  /\ pc = "done"
  /\ TocLen = 2
  /\ PageStart(0) = 1
  /\ PageStart(1) = 2
  /\ LastPage = 2

====
